---------------------------- MODULE Spec2Model ----------------------------
(***************************************************************************)
(* Model of the UnderBrush DSP core (ardura/underbrush):                   *)
(*   src/src/analog_console.rs  AnalogConsoleProcessor, DCPhaseLinearizer, *)
(*                              AllpassFilter, DCBlocker                    *)
(*   src/src/auto_compressor.rs SimpleAutoCompressor                       *)
(*   src/src/lib.rs             UnderBrush::process (the pipeline driver)  *)
(*                                                                         *)
(* Numbers.  The code computes in f32.  The model computes in fixed point: *)
(* a dimensionless value v is the integer round(v * Scale), a frequency or *)
(* sample rate in Hz is the integer round(hz * HzScale).  Every product    *)
(* and quotient is rounded to nearest on that grid (FMul, FDiv), which     *)
(* plays the role of f32 rounding.  The grid has one step size where f32   *)
(* has a relative precision, so the model's least positive value 1/Scale   *)
(* stands for the least positive f32 (2^-149): a result below half a step  *)
(* rounds to 0 in both.  The transcendental functions are series evaluated *)
(* on the grid, valid on the ranges the inputs below produce.  NaN is the  *)
(* one non-finite value the model keeps: the compressor can produce it,    *)
(* and so can the console from a sample whose cube overflows f32.          *)
(***************************************************************************)
EXTENDS Integers, Sequences, FiniteSets, TLC

VARIABLES
  pl,       \* a DCPhaseLinearizer driven directly through its public methods
  comp,     \* a SimpleAutoCompressor
  compB,    \* the compressor of a second run of the pipeline (two-run claims)
  console,  \* an AnalogConsoleProcessor
  consoleB, \* the console of a second run (two-run claims)
  dc,       \* a DCBlocker driven directly through its process method
  driver,   \* the plugin's own fields (prev_slew_l, prev_slew_r) and the
            \* values its process call read for the current block
  hist,     \* the last call on pl, console or the plugin: name, argument,
            \* the object before the call, the result
  chist,    \* the last call on the compressor(s), likewise
  steps     \* number of calls made

vars == <<pl, comp, compB, console, consoleB, dc, driver, hist, chist, steps>>

\* ------------------------------------------------------------------------
\* Bounds of the model (not program constants)
\* ------------------------------------------------------------------------
\* the fixed-point grid of dimensionless values is Base^4: 1.0 is Scale
Base == 32
\* fixed-point grid of frequencies: 1 Hz is HzScale
HzScale == 100
\* number of calls explored per behaviour
MaxSteps == 5
\* the same where linearizer and compressor calls interleave
FilterSteps == 4
\* number of calls explored per behaviour of the two-run pipeline
StereoSteps == 3
\* calls made on a console
ConsoleSteps == 3
\* blocks and samples of the plugin
DriverSteps == 2
\* process calls of the constant-input run of a console
SteadyCalls == 1000
\* longest silence before the burst, longest burst (in samples)
LeadIn == 2
BurstMax == 20
\* method calls on the pair of consoles run side by side
TwoRunSteps == 2
\* method calls on the linearizer whose delay line is followed
DelaySteps == 5
\* blocks and samples of the plugin's sample loop
PipelineSteps == 3

\* ------------------------------------------------------------------------
\* Fixed-point arithmetic (f32 arithmetic rounded to the grid)
\* ------------------------------------------------------------------------
Abs(x) == IF x < 0 THEN -x ELSE x

Max(a, b) == IF a >= b THEN a ELSE b

Min(a, b) == IF a <= b THEN a ELSE b

\* f32::clamp
Clamp(x, lo, hi) == IF x < lo THEN lo ELSE IF x > hi THEN hi ELSE x

Scale == Base * Base * Base * Base

HalfScale == Base * Base

\* round(a * b / Scale), computed on the two HalfScale digits of a and b so
\* that no intermediate value leaves 32 bits
FMul(a, b) ==
  LET a1 == a \div HalfScale
      a0 == a % HalfScale
      b1 == b \div HalfScale
      b0 == b % HalfScale
  IN  a1 * b1
        + (a1 * b0 + a0 * b1 + (a0 * b0 + Scale \div 2) \div HalfScale)
            \div HalfScale

\* round(a * Scale / b) for b > 0 by long division, four digits of base
\* Base, so that no intermediate value leaves 32 bits
FDivPos(a, b) ==
  LET q0 == a \div b
      r0 == a % b
      d1 == (r0 * Base) \div b
      r1 == (r0 * Base) % b
      d2 == (r1 * Base) \div b
      r2 == (r1 * Base) % b
      d3 == (r2 * Base) \div b
      r3 == (r2 * Base) % b
      d4 == (r3 * Base + b \div 2) \div b
  IN  (((q0 * Base + d1) * Base + d2) * Base + d3) * Base + d4

\* a / b in f32 for b # 0; b = 0 is the caller's case to handle (f32 gives
\* an infinity or NaN)
FDiv(a, b) == IF b > 0 THEN FDivPos(a, b) ELSE FDivPos(-a, -b)

\* n / 100000 on the grid, for the decimal constants
Decimal5(n) == FDiv(n, 100000)

\* std::f32::consts::PI
PI == 3 * Scale + Decimal5(14159)

\* f32::tan on [0, 0.4]: x + x^3/3 + 2x^5/15 + 17x^7/315 + 62x^9/2835
Tan(x) ==
  LET x2 == FMul(x, x)
      x3 == FMul(x2, x)
      x5 == FMul(x3, x2)
      x7 == FMul(x5, x2)
      x9 == FMul(x7, x2)
  IN  x + x3 \div 3 + (2 * x5) \div 15 + (17 * x7) \div 315
        + (62 * x9) \div 2835

\* f32::atan on [0, 0.4]: t - t^3/3 + t^5/5 - t^7/7 + t^9/9 - t^11/11
Atan(t) ==
  LET t2 == FMul(t, t)
      t3 == FMul(t2, t)
      t5 == FMul(t3, t2)
      t7 == FMul(t5, t2)
      t9 == FMul(t7, t2)
      t11 == FMul(t9, t2)
  IN  t - t3 \div 3 + t5 \div 5 - t7 \div 7 + t9 \div 9 - t11 \div 11

\* f32::exp(-x) for x >= 0: the series on [0, 0.5], squaring above it
RECURSIVE ExpNeg(_)
ExpNeg(x) ==
  IF x > Scale \div 2
  THEN LET h == ExpNeg(x \div 2) IN FMul(h, h)
  ELSE LET x2 == FMul(x, x)
           x3 == FMul(x2, x)
           x4 == FMul(x3, x)
           x5 == FMul(x4, x)
           x6 == FMul(x5, x)
       IN  Scale - x + x2 \div 2 - x3 \div 6 + x4 \div 24 - x5 \div 120
             + x6 \div 720

\* ln(2)/ln(10), 1/ln(10) and ln(10)
Log10Of2 == Decimal5(30103)

InvLn10 == Decimal5(43429)

Ln10 == Decimal5(230259)

\* log10(a / b) for a, b > 0: b is doubled up to a (or the operands are
\* swapped; large operands are halved together) until the quotient lies in
\* [1, 2), where
\* ln q = 2 artanh((q-1)/(q+1)) is summed by its series
RECURSIVE Log10Ratio(_, _)
Log10Ratio(a, b) ==
  IF Min(a, b) > 16 * Scale THEN Log10Ratio(a \div 2, b \div 2)
  ELSE IF a >= 2 * b THEN Log10Of2 + Log10Ratio(a, 2 * b)
  ELSE IF a < b THEN -Log10Ratio(b, a)
  ELSE LET u  == FDiv(a - b, a + b)
           u2 == FMul(u, u)
           u3 == FMul(u2, u)
           u5 == FMul(u3, u2)
           u7 == FMul(u5, u2)
           u9 == FMul(u7, u2)
       IN  FMul(2 * (u + u3 \div 3 + u5 \div 5 + u7 \div 7 + u9 \div 9),
                InvLn10)

\* f32::log10(v) for v > 0
Log10(v) == Log10Ratio(v, Scale)

\* f32 NaN.  A sum or product with a NaN operand is NaN.
NaN == 0 - 2000000000

NAdd(a, b) == IF a = NaN \/ b = NaN THEN NaN ELSE a + b

NMul(a, b) == IF a = NaN \/ b = NaN THEN NaN ELSE FMul(a, b)

NSub(a, b) == IF a = NaN \/ b = NaN THEN NaN ELSE a - b

NAbs(a) == IF a = NaN THEN NaN ELSE Abs(a)

\* A finite f32 sample far beyond the grid, 1.0e15: its cube, 1.0e45, is
\* above f32::MAX (3.4e38) and evaluates to +inf.
Hot == 2000000000 - 1

\* ------------------------------------------------------------------------
\* Inputs
\* ------------------------------------------------------------------------
Hz(n) == n * HzScale

\* host sample rates
SampleRates == {Hz(8000), Hz(16000)}

\* corner frequencies handed to DCPhaseLinearizer::set_corner_frequency
\* (one above the clamp)
CornerFreqs == {Hz(200), Hz(800), Hz(1000)}

\* corner frequencies handed to DCPhaseLinearizer::new
NewFreqs == {Hz(200), Hz(800)}

\* audio samples
Samples == {-(Scale \div 2), Scale}

\* sample rates handed to the compressor: a host rate, and a rate low enough
\* for the 200 ms release to finish within a few samples
CompRates == {Hz(8000), Hz(2)}

\* rates a compressor is constructed with
CompNewRates == {Hz(8000), Hz(44100)}

\* samples entering the compressor: silence, a sample of 10 grid steps (its
\* envelope rounds to 0 at a host rate), one of 100 grid steps (its envelope
\* is positive and 0.005 times it rounds to 0), and a loud one
CompSamples == {0, 10, 100, 2 * Scale}

\* slew-limited samples entering the compressor stage of the pipeline
StereoSamples == {0, Scale, 2 * Scale}

\* the rounding slack granted when a coefficient is compared with the closed
\* formula, in grid steps
CoeffTolerance == 16

\* ------------------------------------------------------------------------
\* AllpassFilter  (analog_console.rs 231-279)
\* ------------------------------------------------------------------------
\* AllpassFilter::calculate_coefficient
calculate_coefficient(freq_hz, sample_rate) ==
  LET t == Tan(FDiv(FMul(PI, freq_hz), sample_rate))
  IN  FDiv(t - Scale, t + Scale)

\* AllpassFilter::new
AllpassNew(sample_rate, freq_hz) ==
  [a1 |-> calculate_coefficient(freq_hz, sample_rate),
   z1 |-> 0,
   sample_rate |-> sample_rate]

\* AllpassFilter::get_frequency: the frequency recovered from a1 and the
\* filter's CURRENT sample_rate field
get_frequency(ap) ==
  LET t_minus_one == ap.a1
      t_plus_one  == Scale
      t == FDiv(t_minus_one + t_plus_one, t_plus_one - t_minus_one)
  IN  FDiv(FMul(ap.sample_rate, Atan(t)), PI)

\* a set_sample_rate that cleared the state variable z1
AllpassSetSampleRate_resetsZ1(ap, new_sample_rate) ==
  [a1 |-> ap.a1, z1 |-> 0, sample_rate |-> new_sample_rate]

\* AllpassFilter::set_sample_rate: sample_rate is assigned first, and
\* get_frequency then reads the new value
AllpassSetSampleRate(ap, new_sample_rate) ==
  LET ap1 == [ap EXCEPT !.sample_rate = new_sample_rate]
  IN  [ap1 EXCEPT !.a1 = calculate_coefficient(get_frequency(ap1), ap1.sample_rate)]

\* AllpassFilter::set_frequency
AllpassSetFrequency(ap, freq_hz) ==
  [ap EXCEPT !.a1 = calculate_coefficient(freq_hz, ap.sample_rate)]

\* AllpassFilter::process: the new filter and the output
AllpassProcess(ap, input) ==
  LET output == NAdd(NMul(ap.a1, input), ap.z1)
  IN  [ap  |-> [ap EXCEPT !.z1 = NSub(input, NMul(ap.a1, output))],
       out |-> output]

\* ------------------------------------------------------------------------
\* DCPhaseLinearizer  (analog_console.rs 155-228)
\* ------------------------------------------------------------------------
\* VecDeque::resize(n, 0.0): truncates at the back or appends zeros at the
\* back; index 1 is the front (the element pop_front removes)
Zeros(n) == [i \in 1..n |-> 0]

\* a resize that truncated at the front instead
Resize_dropsFront(buffer, n) ==
  IF n <= Len(buffer) THEN SubSeq(buffer, Len(buffer) - n + 1, Len(buffer))
  ELSE buffer \o Zeros(n - Len(buffer))

Resize(buffer, n) ==
  IF n <= Len(buffer) THEN SubSeq(buffer, 1, n)
  ELSE buffer \o Zeros(n - Len(buffer))

\* `x as usize` of a non-negative float: truncation
AsUsize(x) == IF x <= 0 THEN 0 ELSE x \div Scale

\* the delay the setters compute (lines 186 and 199)
SetterDelay(sample_rate, corner_freq) ==
  AsUsize(Max(FDiv(sample_rate, FMul(PI, corner_freq)) - Scale, 0))

\* the delay the constructor computes (line 167)
NewDelay(sample_rate, corner_freq_hz) ==
  AsUsize(FMul(FDiv(sample_rate, corner_freq_hz), Scale \div 4))

\* DCPhaseLinearizer::new
LinearizerNew(sample_rate, corner_freq_hz) ==
  LET delay_samples == NewDelay(sample_rate, corner_freq_hz)
  IN  [sample_rate    |-> sample_rate,
       corner_freq    |-> corner_freq_hz,
       buffer         |-> Zeros(delay_samples),
       allpass_filter |-> AllpassNew(sample_rate, corner_freq_hz),
       delay_samples  |-> delay_samples]

\* a setter that stored the new delay and left the queue alone
ApplyDelay_keepsBuffer(l, new_delay) ==
  [l EXCEPT !.delay_samples = new_delay]

\* lines 187-190 and 202-205: resize only when the delay changed
ApplyDelay(l, new_delay) ==
  IF new_delay # l.delay_samples
  THEN [l EXCEPT !.delay_samples = new_delay,
                 !.buffer = Resize(l.buffer, new_delay)]
  ELSE l

\* DCPhaseLinearizer::set_sample_rate
LinearizerSetSampleRate(l, new_sample_rate) ==
  LET l1 == [l EXCEPT !.sample_rate = new_sample_rate,
                      !.allpass_filter =
                          AllpassSetSampleRate(l.allpass_filter, new_sample_rate)]
  IN  ApplyDelay(l1, SetterDelay(l1.sample_rate, l1.corner_freq))

\* DCPhaseLinearizer::set_corner_frequency
LinearizerSetCornerFrequency(l, freq_hz) ==
  LET cf == Clamp(freq_hz, Hz(20), Hz(800))
      l1 == [l EXCEPT !.corner_freq = cf,
                      !.allpass_filter = AllpassSetFrequency(l.allpass_filter, cf)]
  IN  ApplyDelay(l1, SetterDelay(l1.sample_rate, l1.corner_freq))

\* lines 213-226, given the allpass result and the queue after push_back:
\* the new linearizer, the output, the value used as `delayed` and whether
\* the pop found the queue empty
LinearizerOutput(l, input, r, pushed) ==
  LET empty   == Len(pushed) = 0
      delayed == IF empty THEN 0 ELSE Head(pushed)
      rest    == IF empty THEN pushed ELSE Tail(pushed)
      crossover_coeff == (3 * Scale) \div 10
      low_mix_alt == NAdd(NMul(input, crossover_coeff),
                          NMul(delayed, Scale - crossover_coeff))
      output  == NAdd(NMul(low_mix_alt, (7 * Scale) \div 10),
                      NMul(r.out, (3 * Scale) \div 10))
  IN  [l |-> [l EXCEPT !.allpass_filter = r.ap, !.buffer = rest],
       out |-> output, delayed |-> delayed, empty |-> empty]

\* a push at the front of the queue, where pop_front takes it back at once
LinearizerPush_atFront(l, input, r) ==
  LinearizerOutput(l, input, r, <<r.out>> \o l.buffer)

\* line 213, given the allpass result
LinearizerPush(l, input, r) ==
  LinearizerOutput(l, input, r, Append(l.buffer, r.out))

\* DCPhaseLinearizer::process
LinearizerProcess(l, input) ==
  LinearizerPush(l, input, AllpassProcess(l.allpass_filter, input))

\* ------------------------------------------------------------------------
\* Specification of a DCPhaseLinearizer under its public methods
\* ------------------------------------------------------------------------
Call(op, arg, pre, out) == [op |-> op, arg |-> arg, pre |-> pre, out |-> out]

InitPL ==
  /\ \E fs \in SampleRates, f \in NewFreqs :
        /\ pl = LinearizerNew(fs, f)
        /\ hist = Call("new", <<fs, f>>, LinearizerNew(fs, f), 0)
  /\ comp = 0
  /\ compB = 0
  /\ console = 0
  /\ driver = 0
  /\ chist = 0
  /\ consoleB = 0
  /\ dc = 0
  /\ steps = 0

PLSetSampleRate ==
  /\ steps < MaxSteps
  /\ \E fs \in SampleRates :
        /\ pl' = LinearizerSetSampleRate(pl, fs)
        /\ hist' = Call("set_sample_rate", fs, pl, 0)
  /\ steps' = steps + 1
  /\ UNCHANGED <<comp, compB, console, chist, driver, consoleB, dc>>

PLSetCornerFrequency ==
  /\ steps < MaxSteps
  /\ \E f \in CornerFreqs :
        /\ pl' = LinearizerSetCornerFrequency(pl, f)
        /\ hist' = Call("set_corner_frequency", f, pl, 0)
  /\ steps' = steps + 1
  /\ UNCHANGED <<comp, compB, console, chist, driver, consoleB, dc>>

PLProcess ==
  /\ steps < MaxSteps
  /\ \E x \in Samples :
        \E r \in {LinearizerProcess(pl, x)} :
            /\ pl' = r.l
            /\ hist' = Call("process", x, pl, r.out)
  /\ steps' = steps + 1
  /\ UNCHANGED <<comp, compB, console, chist, driver, consoleB, dc>>

NextPL == PLSetSampleRate \/ PLSetCornerFrequency \/ PLProcess

SpecPL == InitPL /\ [][NextPL]_vars

\* ------------------------------------------------------------------------
\* Claims about the DCPhaseLinearizer and its AllpassFilter
\* ------------------------------------------------------------------------
\* C1: in every state reachable from new by set_sample_rate,
\* set_corner_frequency and process, the delay queue holds exactly
\* delay_samples elements; process leaves the length unchanged.
C1_QueueLengthIsDelay ==
  /\ Len(pl.buffer) = pl.delay_samples
  /\ hist.op = "process" => Len(pl.buffer) = Len(hist.pre.buffer)

\* C1 witness: a setter has just changed delay_samples after samples were
\* queued, and the queue has the new length.
C1_Witness ==
  /\ hist.op \in {"set_sample_rate", "set_corner_frequency"}
  /\ hist.pre.delay_samples # pl.delay_samples
  /\ hist.pre.buffer # Zeros(Len(hist.pre.buffer))
  /\ Len(pl.buffer) = pl.delay_samples

\* C2 (as claimed): after set_sample_rate(fs') the allpass coefficient is
\* the one the closed formula gives for the configured corner frequency and
\* the new rate fs' (up to CoeffTolerance grid steps of rounding).
C2_CoefficientFollowsRate ==
  hist.op = "set_sample_rate" =>
    Abs(pl.allpass_filter.a1
          - calculate_coefficient(pl.corner_freq, pl.sample_rate))
      <= CoeffTolerance

\* C3 (as claimed): a setter that shrinks the delay from n to m keeps the m
\* newest entries (drops the oldest); one that grows it keeps all n entries
\* in order and adds m-n zeros.
C3_ShrinkDropsOldest ==
  hist.op \in {"set_sample_rate", "set_corner_frequency"} =>
    LET n == hist.pre.delay_samples
        m == pl.delay_samples
    IN  /\ m < n => pl.buffer = SubSeq(hist.pre.buffer, n - m + 1, n)
        /\ m > n => pl.buffer = hist.pre.buffer \o Zeros(m - n)

\* C3 (amended): a setter that shrinks the delay from n to m keeps the m
\* OLDEST entries in order (those process pops next) and drops the n-m
\* newest ones from the tail; one that grows it keeps all n entries in order
\* and appends m-n zeros at the tail.
C3_ShrinkDropsNewest ==
  hist.op \in {"set_sample_rate", "set_corner_frequency"} =>
    LET n == hist.pre.delay_samples
        m == pl.delay_samples
    IN  /\ m < n => pl.buffer = SubSeq(hist.pre.buffer, 1, m)
        /\ m > n => pl.buffer = hist.pre.buffer \o Zeros(m - n)
        /\ m = n => pl.buffer = hist.pre.buffer

\* C3 witness: a setter has shrunk a queue whose oldest m entries differ
\* from its newest m entries.
C3_Witness ==
  /\ hist.op \in {"set_sample_rate", "set_corner_frequency"}
  /\ pl.delay_samples < hist.pre.delay_samples
  /\ pl.delay_samples > 0
  /\ SubSeq(hist.pre.buffer, 1, pl.delay_samples)
       # SubSeq(hist.pre.buffer,
                hist.pre.delay_samples - pl.delay_samples + 1,
                hist.pre.delay_samples)

\* C4 (as claimed): in every reachable state, directly after new included,
\* delay_samples is max(0, trunc(fs/(pi*f) - 1)) for the current
\* sample_rate and corner_freq.
C4_DelayFollowsFormula ==
  pl.delay_samples = SetterDelay(pl.sample_rate, pl.corner_freq)

\* ------------------------------------------------------------------------
\* SimpleAutoCompressor  (auto_compressor.rs)
\* ------------------------------------------------------------------------
\* exp(-1 / (time_ms * 0.001 * sample_rate)), lines 31-32 and 44-45; the
\* quotient is formed as (1 / (time_ms * 0.001)) / sample_rate, which keeps
\* it on the grid for every rate
TimeCoeff(time_ms, sample_rate) ==
  LET seconds == FMul(time_ms * Scale, Scale \div 1000)
      per_second == FDiv(Scale, seconds)
  IN  ExpNeg((per_second \div sample_rate) * HzScale
               + ((per_second % sample_rate) * HzScale + sample_rate \div 2)
                   \div sample_rate)

\* SimpleAutoCompressor::new
CompressorNew(sample_rate) ==
  [sample_rate       |-> sample_rate,
   envelope          |-> 0,
   gain_reduction    |-> Scale,
   attack_coeff      |-> TimeCoeff(15, sample_rate),
   release_coeff     |-> TimeCoeff(200, sample_rate),
   peak_average      |-> 0,
   input_level       |-> 0,
   output_level      |-> 0,
   gain_reduction_db |-> 0]

\* SimpleAutoCompressor::set_sample_rate
CompressorSetSampleRate(c, sample_rate) ==
  [c EXCEPT !.sample_rate   = sample_rate,
            !.attack_coeff  = TimeCoeff(15, sample_rate),
            !.release_coeff = TimeCoeff(200, sample_rate)]

\* SimpleAutoCompressor::calculate_dynamic_ratio
calculate_dynamic_ratio(excess_db) ==
  LET min_ratio == (3 * Scale) \div 2
      max_ratio == 4 * Scale
      clamped_excess == Min(excess_db, 20 * Scale)
  IN  min_ratio + FMul(FDiv(clamped_excess, 20 * Scale), max_ratio - min_ratio)

\* lines 73-76: the target gain for an excess over the threshold in dB;
\* line 72: the excess of an envelope above a non-zero threshold
TargetGainFor(excess_db) ==
  LET ratio        == calculate_dynamic_ratio(excess_db)
      reduction_db == excess_db - FDiv(excess_db, ratio)
  IN  ExpNeg(FMul((reduction_db + 10) \div 20, Ln10))

TargetGain(envelope, threshold) ==
  TargetGainFor(20 * Log10Ratio(envelope, threshold))

\* a no-reduction branch that smoothed the gain toward 1.0 like the
\* reduction branch smooths it toward its target
GainUpdate_smoothsToUnity(gain_reduction, envelope, threshold) ==
  IF envelope <= threshold
  THEN NAdd(NMul(gain_reduction, (9 * Scale) \div 10), Scale \div 10)
  ELSE IF threshold = 0 THEN NaN
  ELSE NAdd(NMul(gain_reduction, (9 * Scale) \div 10),
            FMul(TargetGain(envelope, threshold), Scale \div 10))

\* lines 68-79: the new gain_reduction.  With threshold = 0 and envelope > 0
\* the quotient is +inf, excess_db is +inf, the ratio is 4, reduction_db is
\* inf - inf = NaN and so are target_gain and the smoothed gain.
GainUpdate(gain_reduction, envelope, threshold) ==
  IF envelope <= threshold THEN Scale
  ELSE IF threshold = 0 THEN NaN
  ELSE NAdd(NMul(gain_reduction, (9 * Scale) \div 10),
            FMul(TargetGain(envelope, threshold), Scale \div 10))

\* -20 * log10(gain_reduction), line 89
GainDb(gain_reduction) ==
  IF gain_reduction = NaN THEN NaN ELSE -20 * Log10(gain_reduction)

\* lines 55-59: the envelope follower
EnvelopeUpdate(c, input_abs) ==
  IF input_abs > c.envelope
  THEN FMul(input_abs, Scale - c.attack_coeff)
         + FMul(c.envelope, c.attack_coeff)
  ELSE FMul(input_abs, Scale - c.release_coeff)
         + FMul(c.envelope, c.release_coeff)

\* line 62: the peak memory
PeakUpdate(c, envelope) ==
  FMul(c.peak_average, (995 * Scale) \div 1000)
    + FMul(envelope, (5 * Scale) \div 1000)

\* lines 51 and 82-92, given the values lines 55-79 computed: the new
\* compressor, the output, the threshold and the branch taken
CompressorOutput(c, input, envelope, peak_average, threshold, gain_reduction) ==
  [c |-> [c EXCEPT !.input_level = FMul(c.input_level, (9 * Scale) \div 10)
                                     + FMul(Abs(input), Scale \div 10),
                   !.envelope = envelope,
                   !.peak_average = peak_average,
                   !.gain_reduction = gain_reduction,
                   !.gain_reduction_db = GainDb(gain_reduction),
                   !.output_level =
                       NAdd(NMul(c.output_level, (9 * Scale) \div 10),
                            NMul(NAbs(NMul(NMul(gain_reduction, input),
                                           (14 * Scale) \div 10)),
                                 Scale \div 10))],
   out       |-> NMul(NMul(gain_reduction, input), (14 * Scale) \div 10),
   threshold |-> threshold,
   reduced   |-> ~(envelope <= threshold)]

\* lines 65-79: threshold and gain for the updated envelope and peak memory
CompressorGain(c, input, envelope, peak_average, threshold) ==
  CompressorOutput(c, input, envelope, peak_average, threshold,
                   GainUpdate(c.gain_reduction, envelope, threshold))

\* line 65, given the updated peak memory
CompressorPeak(c, input, envelope, peak_average) ==
  CompressorGain(c, input, envelope, peak_average,
                 FMul(peak_average, Scale \div 2))

\* line 62, given the updated envelope
CompressorEnvelope(c, input, envelope) ==
  CompressorPeak(c, input, envelope, PeakUpdate(c, envelope))

\* process for a NaN input or a NaN envelope: every comparison with NaN is
\* false, so the release branch (line 58) and the reduction branch (lines
\* 70-78) run and every level, the gain and the output are NaN
CompressorPoisoned(c) ==
  [c |-> [c EXCEPT !.input_level = NaN,
                   !.envelope = NaN,
                   !.peak_average = NaN,
                   !.gain_reduction = NaN,
                   !.gain_reduction_db = NaN,
                   !.output_level = NaN],
   out       |-> NaN,
   threshold |-> NaN,
   reduced   |-> TRUE]

\* SimpleAutoCompressor::process: the new compressor, the output, and what
\* the call computed on the way (threshold, branch taken)
CompressorProcess(c, input) ==
  IF input = NaN \/ c.envelope = NaN THEN CompressorPoisoned(c)
  ELSE CompressorEnvelope(c, input, EnvelopeUpdate(c, Abs(input)))

\* ------------------------------------------------------------------------
\* Specification of a SimpleAutoCompressor under its public methods
\* ------------------------------------------------------------------------
InitComp ==
  /\ \E fs \in CompNewRates :
        /\ comp = CompressorNew(fs)
        /\ chist = Call("new", fs, CompressorNew(fs), 0)
  /\ compB = 0
  /\ pl = 0
  /\ console = 0
  /\ driver = 0
  /\ hist = 0
  /\ consoleB = 0
  /\ dc = 0
  /\ steps = 0

CompSetSampleRate ==
  /\ steps < MaxSteps
  /\ \E fs \in CompRates :
        /\ comp' = CompressorSetSampleRate(comp, fs)
        /\ chist' = Call("set_sample_rate", fs, comp, 0)
  /\ steps' = steps + 1
  /\ UNCHANGED <<pl, compB, console, hist, driver, consoleB, dc>>

CompProcess ==
  /\ steps < MaxSteps
  /\ \E x \in CompSamples :
        \E r \in {CompressorProcess(comp, x)} :
            /\ comp' = r.c
            /\ chist' = Call("process", x, comp,
                             [out |-> r.out, threshold |-> r.threshold,
                              reduced |-> r.reduced])
  /\ steps' = steps + 1
  /\ UNCHANGED <<pl, compB, console, hist, driver, consoleB, dc>>

NextComp == CompSetSampleRate \/ CompProcess

SpecComp == InitComp /\ [][NextComp]_vars

\* ------------------------------------------------------------------------
\* Specification of a linearizer and a compressor called in any order
\* ------------------------------------------------------------------------
InitFilters ==
  /\ pl = LinearizerNew(Hz(16000), Hz(800))
  /\ hist = Call("new", <<Hz(16000), Hz(800)>>, pl, 0)
  /\ comp = CompressorNew(Hz(8000))
  /\ chist = Call("new", Hz(8000), comp, 0)
  /\ compB = 0
  /\ console = 0
  /\ driver = 0
  /\ consoleB = 0
  /\ dc = 0
  /\ steps = 0

NextFilters ==
  \/ steps < FilterSteps /\ PLSetSampleRate
  \/ steps < FilterSteps /\ PLSetCornerFrequency
  \/ steps < FilterSteps /\ PLProcess
  \/ steps < FilterSteps /\ CompSetSampleRate
  \/ steps < FilterSteps /\ CompProcess

SpecFilters == InitFilters /\ [][NextFilters]_vars

\* ------------------------------------------------------------------------
\* The compressor stage of the pipeline, run twice side by side
\* (lib.rs 104, 373, 412-415): both runs get the same configuration and the
\* same right-channel samples; the left-channel samples are free.
\* ------------------------------------------------------------------------
\* lines 413-414, given the results of both calls: the compressor after
\* the right sample and the two outputs
CompressPairOut(l, r) == [c |-> r.c, out_l |-> l.out, out_r |-> r.out]

\* line 414: the right sample goes through the compressor the left sample
\* has just been through
CompressRight(l, right) == CompressPairOut(l, CompressorProcess(l.c, right))

\* lines 412-415: the plugin's one compressor processes the left sample and
\* then the right sample
CompressPair(c, left, right) ==
  CompressRight(CompressorProcess(c, left), right)

InitStereo ==
  /\ comp = CompressorNew(Hz(44100))
  /\ compB = CompressorNew(Hz(44100))
  /\ chist = Call("new", Hz(44100), comp, 0)
  /\ pl = 0
  /\ console = 0
  /\ driver = 0
  /\ hist = 0
  /\ consoleB = 0
  /\ dc = 0
  /\ steps = 0

StereoSetSampleRate ==
  /\ steps < StereoSteps
  /\ \E fs \in SampleRates :
        /\ comp' = CompressorSetSampleRate(comp, fs)
        /\ compB' = CompressorSetSampleRate(compB, fs)
        /\ chist' = Call("set_sample_rate", fs, comp, 0)
  /\ steps' = steps + 1
  /\ UNCHANGED <<pl, console, hist, driver, consoleB, dc>>

\* samples are processed after the block's reconfiguration (lines 367-373
\* precede the sample loop)
StereoProcess ==
  /\ steps < StereoSteps
  /\ chist.op # "new"
  /\ \E leftA \in StereoSamples, leftB \in StereoSamples, right \in StereoSamples :
        \E a \in {CompressPair(comp, leftA, right)},
           b \in {CompressPair(compB, leftB, right)} :
            /\ comp' = a.c
            /\ compB' = b.c
            /\ chist' = Call("stereo", <<leftA, leftB, right>>, comp,
                             [rightA |-> a.out_r, rightB |-> b.out_r])
  /\ steps' = steps + 1
  /\ UNCHANGED <<pl, console, hist, driver, consoleB, dc>>

NextStereo == StereoSetSampleRate \/ StereoProcess

SpecStereo == InitStereo /\ [][NextStereo]_vars

\* ------------------------------------------------------------------------
\* Claims about the compressor
\* ------------------------------------------------------------------------
\* C6 (as claimed): two runs of the pipeline that agree on the right-channel
\* signal entering the compressor and differ only in the left-channel signal
\* produce identical right-channel compressor outputs.
C6_RightIndependentOfLeft ==
  chist.op = "stereo" => chist.out.rightA = chist.out.rightB

\* C7: the linearizer's setters (through AllpassFilter::set_sample_rate and
\* AllpassFilter::set_frequency) leave the allpass state z1 unchanged, and
\* set_frequency leaves the allpass sample_rate unchanged;
\* SimpleAutoCompressor::set_sample_rate leaves envelope, gain_reduction,
\* peak_average and the three meters unchanged.
C7_SettersKeepFilterState ==
  /\ hist.op \in {"set_sample_rate", "set_corner_frequency"} =>
       pl.allpass_filter.z1 = hist.pre.allpass_filter.z1
  /\ hist.op = "set_corner_frequency" =>
       pl.allpass_filter.sample_rate = hist.pre.allpass_filter.sample_rate
  /\ chist.op = "set_sample_rate" =>
       /\ comp.envelope = chist.pre.envelope
       /\ comp.gain_reduction = chist.pre.gain_reduction
       /\ comp.peak_average = chist.pre.peak_average
       /\ comp.input_level = chist.pre.input_level
       /\ comp.output_level = chist.pre.output_level
       /\ comp.gain_reduction_db = chist.pre.gain_reduction_db

\* C7 witness: the last linearizer call was a setter that changed a1 of an
\* allpass with non-zero z1, and the last compressor call was a
\* set_sample_rate that changed the coefficients of a compressor with a
\* non-zero envelope.
C7_Witness ==
  /\ hist.op \in {"set_sample_rate", "set_corner_frequency"}
  /\ hist.pre.allpass_filter.z1 # 0
  /\ pl.allpass_filter.a1 # hist.pre.allpass_filter.a1
  /\ chist.op = "set_sample_rate"
  /\ chist.pre.envelope # 0
  /\ comp.attack_coeff # chist.pre.attack_coeff

\* C8 (as claimed): in every process call the quotient envelope/threshold
\* is evaluated only with threshold > 0 (threshold = 0 takes the
\* no-reduction branch), and envelope, peak_average and threshold are >= 0.
C8_DivisionGuarded ==
  chist.op = "process" =>
    /\ chist.out.reduced => chist.out.threshold > 0
    /\ comp.envelope >= 0
    /\ comp.peak_average >= 0
    /\ chist.out.threshold >= 0

\* C9: a process call that ends its envelope and peak_average updates with
\* envelope <= threshold sets gain_reduction to exactly 1.0 whatever it was
\* before, returns input * 1.4 and sets gain_reduction_db to 0.
C9_NoReductionSnapsToUnity ==
  (chist.op = "process" /\ ~chist.out.reduced) =>
    /\ comp.gain_reduction = Scale
    /\ chist.out.out = FMul(chist.arg, (14 * Scale) \div 10)
    /\ comp.gain_reduction_db = 0

\* C9 witness: a non-zero sample took the no-reduction branch while the
\* gain before the call was a finite value other than 1.0.
C9_Witness ==
  /\ chist.op = "process"
  /\ ~chist.out.reduced
  /\ chist.arg # 0
  /\ chist.pre.gain_reduction \notin {Scale, NaN}
  /\ comp.gain_reduction = Scale

\* ------------------------------------------------------------------------
\* DCBlocker  (analog_console.rs 282-303)
\* ------------------------------------------------------------------------
\* DCBlocker::new
DCBlockerNew(r) ==
  [r  |-> Clamp(r, (9 * Scale) \div 10, (999 * Scale) \div 1000),
   x1 |-> 0,
   y1 |-> 0]

\* a process without the pole r: the previous output is fed back whole
DCBlockerProcess_unityFeedback(d, input) ==
  LET output == NAdd(NSub(input, d.x1), d.y1)
  IN  [d |-> [d EXCEPT !.x1 = input, !.y1 = output], out |-> output]

\* DCBlocker::process: the new blocker and the output
DCBlockerProcess(d, input) ==
  LET output == NAdd(NSub(input, d.x1), NMul(d.r, d.y1))
  IN  [d |-> [d EXCEPT !.x1 = input, !.y1 = output], out |-> output]

\* ------------------------------------------------------------------------
\* AnalogConsoleProcessor  (analog_console.rs 7-153)
\* ------------------------------------------------------------------------
\* enum SaturationType
SaturationType ==
  {"Tape", "Tube", "Transistor", "LDR", "Cubic", "Quintic", "SoftClip",
   "Bypass"}

\* f32::tanh
Tanh(x) ==
  LET e == ExpNeg(2 * Abs(x))
      t == FDiv(Scale - e, Scale + e)
  IN  IF x < 0 THEN -t ELSE t

\* Newton's iteration for the square root, from a start above the root
RECURSIVE SqrtFrom(_, _)
SqrtFrom(v, y) ==
  LET y2 == (y + FDiv(v, y)) \div 2
  IN  IF y2 >= y THEN y ELSE SqrtFrom(v, y2)

\* f32::powf(1.5) of a non-negative value
Pow15(v) == IF v = 0 THEN 0 ELSE FMul(v, SqrtFrom(v, (v + Scale) \div 2 + 1))

\* saturate(1.0e15) for a drive in [0.5, 10]: tanh and 1 - exp(-x) are at
\* their limit, 1.2 * x / (1 + x^1.5) is below half a grid step,
\* x / (1 + x) rounds to 1.0, the polynomials overflow to +inf (kept as
\* NaN: process only adds and scales it, and every result is non-finite),
\* and the two linear laws stay finite and beyond the grid.
saturateHot(c) ==
  CASE c.saturation_type = "Tape" -> Scale \div 2
    [] c.saturation_type = "Tube" -> Scale
    [] c.saturation_type = "Transistor" -> 0
    [] c.saturation_type = "LDR" -> Hot
    [] c.saturation_type = "Cubic" -> NaN
    [] c.saturation_type = "Quintic" -> NaN
    [] c.saturation_type = "SoftClip" -> Scale
    [] c.saturation_type = "Bypass" -> Hot

\* AnalogConsoleProcessor::saturate
saturate(c, sample) ==
  IF sample = Hot THEN saturateHot(c) ELSE
  LET driven == FMul(sample, c.drive)
  IN  CASE c.saturation_type = "Tape" ->
             FMul(Tanh(FMul(sample, c.drive + Scale)), Scale \div 2)
        [] c.saturation_type = "Tube" ->
             IF driven >= 0 THEN Scale - ExpNeg(driven)
             ELSE ExpNeg(-driven) - Scale
        [] c.saturation_type = "Transistor" ->
             FMul(FDiv(driven, Scale + Pow15(Abs(driven))), (12 * Scale) \div 10)
        [] c.saturation_type = "LDR" ->
             LET control_signal == Clamp(Abs(driven), 0, Scale)
                 resistance == FDiv(Scale, Scale \div 10
                                             + FMul(control_signal, 5 * Scale))
                 saturation_scaler == (83 * Scale) \div 100
             IN  FDiv(driven, Scale + FMul(resistance, saturation_scaler))
        [] c.saturation_type = "Cubic" ->
             sample + FMul(FMul(FMul(c.drive, sample), sample), sample)
        [] c.saturation_type = "Quintic" ->
             LET drive1 == FMul(Scale \div 2, c.drive)
                 drive2 == FMul((3 * Scale) \div 10, c.drive)
                 p2 == FMul(sample, sample)
                 p3 == FMul(p2, sample)
                 p5 == FMul(FMul(p2, p2), sample)
             IN  sample + FMul(drive1, p3) + FMul(drive2, p5)
        [] c.saturation_type = "SoftClip" ->
             FDiv(driven, Scale + Abs(driven))
        [] c.saturation_type = "Bypass" -> driven

\* AnalogConsoleProcessor::new
ConsoleNew(sample_rate) ==
  [drive                  |-> Scale \div 2,
   saturation_type        |-> "Tape",
   crosstalk_amount       |-> (5 * Scale) \div 100,
   prev_left              |-> 0,
   prev_right             |-> 0,
   dc_blocker_left        |-> DCBlockerNew((995 * Scale) \div 1000),
   dc_blocker_right       |-> DCBlockerNew((995 * Scale) \div 1000),
   phase_linearizer_left  |-> LinearizerNew(sample_rate, Hz(30)),
   phase_linearizer_right |-> LinearizerNew(sample_rate, Hz(30))]

\* AnalogConsoleProcessor::set_sample_rate
ConsoleSetSampleRate(c, sample_rate) ==
  [c EXCEPT !.phase_linearizer_left =
                LinearizerSetSampleRate(c.phase_linearizer_left, sample_rate),
            !.phase_linearizer_right =
                LinearizerSetSampleRate(c.phase_linearizer_right, sample_rate)]

\* AnalogConsoleProcessor::set_drive
ConsoleSetDrive(c, drive) ==
  [c EXCEPT !.drive = Clamp(drive, Scale, 10 * Scale)]

\* AnalogConsoleProcessor::set_saturation_type
ConsoleSetSaturationType(c, sat_type) ==
  [c EXCEPT !.saturation_type = sat_type]

\* AnalogConsoleProcessor::set_crosstalk
ConsoleSetCrosstalk(c, amount) ==
  [c EXCEPT !.crosstalk_amount = Clamp(amount, 0, (3 * Scale) \div 10)]

\* lines 73-75 and 76-78: one channel of set_phase_linearizer_freq
SetFreqIfChanged(l, freq_hz) ==
  IF l.corner_freq # freq_hz THEN LinearizerSetCornerFrequency(l, freq_hz)
  ELSE l

\* AnalogConsoleProcessor::set_phase_linearizer_freq
ConsoleSetPhaseLinearizerFreq(c, freq_hz) ==
  [c EXCEPT !.phase_linearizer_left =
                SetFreqIfChanged(c.phase_linearizer_left, freq_hz),
            !.phase_linearizer_right =
                SetFreqIfChanged(c.phase_linearizer_right, freq_hz)]

\* lines 95-106, given the crosstalk mix and the results of the DC
\* blockers and the linearizers: the new console and the output pair
ConsoleOutput(c, left_cross, right_cross, dcl, dcr, ll, lr) ==
  [c |-> [c EXCEPT !.prev_left = left_cross,
                   !.prev_right = right_cross,
                   !.dc_blocker_left = dcl.d,
                   !.dc_blocker_right = dcr.d,
                   !.phase_linearizer_left = ll.l,
                   !.phase_linearizer_right = lr.l],
   left |-> ll.out, right |-> lr.out]

\* lines 103-104: phase linearization of the DC-blocked samples
ConsoleLinearize(c, left_cross, right_cross, dcl, dcr) ==
  ConsoleOutput(c, left_cross, right_cross, dcl, dcr,
                LinearizerProcess(c.phase_linearizer_left, dcl.out),
                LinearizerProcess(c.phase_linearizer_right, dcr.out))

\* lines 92-100: transient smoothing and DC blocking of the crosstalk mix
ConsoleSmooth(c, left_cross, right_cross) ==
  ConsoleLinearize(c, left_cross, right_cross,
    DCBlockerProcess(c.dc_blocker_left,
                     NAdd(NMul((9 * Scale) \div 10, left_cross),
                          NMul(Scale \div 10, c.prev_left))),
    DCBlockerProcess(c.dc_blocker_right,
                     NAdd(NMul((9 * Scale) \div 10, right_cross),
                          NMul(Scale \div 10, c.prev_right))))

\* a mix with the plugin's crosstalk of 0.03 whatever crosstalk_amount is
ConsoleCrosstalk_alwaysBleeds(c, left_sat, right_sat) ==
  ConsoleSmooth(c,
    NAdd(NMul(Scale - (3 * Scale) \div 100, left_sat),
         NMul((3 * Scale) \div 100, right_sat)),
    NAdd(NMul(Scale - (3 * Scale) \div 100, right_sat),
         NMul((3 * Scale) \div 100, left_sat)))

\* lines 88-89: the crosstalk mix of the saturated samples
ConsoleCrosstalk(c, left_sat, right_sat) ==
  ConsoleSmooth(c,
    NAdd(NMul(Scale - c.crosstalk_amount, left_sat),
         NMul(c.crosstalk_amount, right_sat)),
    NAdd(NMul(Scale - c.crosstalk_amount, right_sat),
         NMul(c.crosstalk_amount, left_sat)))

\* AnalogConsoleProcessor::process
ConsoleProcess(c, left, right) ==
  ConsoleCrosstalk(c, saturate(c, left), saturate(c, right))

\* ------------------------------------------------------------------------
\* Specification of an AnalogConsoleProcessor under its public methods
\* ------------------------------------------------------------------------
\* arguments of set_drive, set_crosstalk and set_phase_linearizer_freq:
\* below, inside and above the range the setter clamps to
Drives == {Scale \div 2, 2 * Scale, 20 * Scale}

CrosstalkAmounts == {-(Scale \div 10), (3 * Scale) \div 100, Scale \div 2}

LinearizerFreqs == {Hz(10), Hz(338), Hz(1000)}

\* stereo samples (left, right)
StereoInputs ==
  {<<Scale, -(Scale \div 2)>>, <<Scale \div 2, Scale \div 2>>, <<0, Scale>>}

InitConsole ==
  /\ \E fs \in SampleRates :
        /\ console = ConsoleNew(fs)
        /\ hist = Call("new", fs, ConsoleNew(fs), 0)
  /\ pl = 0
  /\ comp = 0
  /\ compB = 0
  /\ driver = 0
  /\ chist = 0
  /\ consoleB = 0
  /\ dc = 0
  /\ steps = 0

CSetSampleRate ==
  /\ steps < ConsoleSteps
  /\ \E fs \in SampleRates :
        /\ console' = ConsoleSetSampleRate(console, fs)
        /\ hist' = Call("set_sample_rate", fs, console, 0)
  /\ steps' = steps + 1
  /\ UNCHANGED <<pl, comp, compB, driver, chist, consoleB, dc>>

CSetDrive ==
  /\ steps < ConsoleSteps
  /\ \E d \in Drives :
        /\ console' = ConsoleSetDrive(console, d)
        /\ hist' = Call("set_drive", d, console, 0)
  /\ steps' = steps + 1
  /\ UNCHANGED <<pl, comp, compB, driver, chist, consoleB, dc>>

CSetSaturationType ==
  /\ steps < ConsoleSteps
  /\ \E t \in SaturationType :
        /\ console' = ConsoleSetSaturationType(console, t)
        /\ hist' = Call("set_saturation_type", t, console, 0)
  /\ steps' = steps + 1
  /\ UNCHANGED <<pl, comp, compB, driver, chist, consoleB, dc>>

CSetCrosstalk ==
  /\ steps < ConsoleSteps
  /\ \E k \in CrosstalkAmounts :
        /\ console' = ConsoleSetCrosstalk(console, k)
        /\ hist' = Call("set_crosstalk", k, console, 0)
  /\ steps' = steps + 1
  /\ UNCHANGED <<pl, comp, compB, driver, chist, consoleB, dc>>

CSetPhaseLinearizerFreq ==
  /\ steps < ConsoleSteps
  /\ \E f \in LinearizerFreqs :
        /\ console' = ConsoleSetPhaseLinearizerFreq(console, f)
        /\ hist' = Call("set_phase_linearizer_freq", f, console, 0)
  /\ steps' = steps + 1
  /\ UNCHANGED <<pl, comp, compB, driver, chist, consoleB, dc>>

CProcess ==
  /\ steps < ConsoleSteps
  /\ \E x \in StereoInputs :
        \E r \in {ConsoleProcess(console, x[1], x[2])} :
            /\ console' = r.c
            /\ hist' = Call("process", x, console, <<r.left, r.right>>)
  /\ steps' = steps + 1
  /\ UNCHANGED <<pl, comp, compB, driver, chist, consoleB, dc>>

NextConsole ==
  \/ CSetSampleRate
  \/ CSetDrive
  \/ CSetSaturationType
  \/ CSetCrosstalk
  \/ CSetPhaseLinearizerFreq
  \/ CProcess

SpecConsole == InitConsole /\ [][NextConsole]_vars

\* C5 (as claimed): in every reachable state of a console, from new onward,
\* drive is in [1,10], crosstalk is in [0,0.3] and both channels'
\* corner_freq are in [20,800].
C5_ParametersInDomain ==
  /\ console.drive >= Scale
  /\ console.drive <= 10 * Scale
  /\ console.crosstalk_amount >= 0
  /\ console.crosstalk_amount <= (3 * Scale) \div 10
  /\ console.phase_linearizer_left.corner_freq >= Hz(20)
  /\ console.phase_linearizer_left.corner_freq <= Hz(800)
  /\ console.phase_linearizer_right.corner_freq >= Hz(20)
  /\ console.phase_linearizer_right.corner_freq <= Hz(800)

\* ------------------------------------------------------------------------
\* UnderBrush, the pipeline driver  (lib.rs 94-107 and 357-467)
\* ------------------------------------------------------------------------
\* util::db_to_gain of a gain within the parameter's range: 10^(dbs * 0.05)
DbToGain(dbs) ==
  LET e == ExpNeg(FMul(FMul(Abs(dbs), (5 * Scale) \div 100), Ln10))
  IN  IF dbs > 0 THEN FDiv(Scale, e) ELSE e

\* f32::clamp, which returns NaN for NaN
NClamp(x, lo, hi) == IF x = NaN THEN NaN ELSE Clamp(x, lo, hi)

\* parameter values the host hands to a block (UnderBrushParams, lines
\* 109-153): slew, drive, sat_type, l_hz, comp, clip, mix, gain
DriverParams ==
  [slew     : {(8 * Scale) \div 10},
   drive    : {Scale \div 100, 2 * Scale},
   sat_type : {"Tape", "Bypass"},
   l_hz     : {Hz(150), Hz(338)},
   comp     : BOOLEAN,
   clip     : BOOLEAN,
   mix      : {Scale \div 2, Scale},
   gain     : {0, -(6 * Scale)}]

\* lines 367-371: the console's part of the per-block reconfiguration
Reconfigure(c, sample_rate, p) ==
  LET c1 == ConsoleSetSampleRate(c, sample_rate)
      c2 == ConsoleSetDrive(c1, p.drive)
      c3 == ConsoleSetSaturationType(c2, p.sat_type)
      c4 == ConsoleSetCrosstalk(c3, (3 * Scale) \div 100)
  IN  ConsoleSetPhaseLinearizerFreq(c4, p.l_hz)

\* a slew stage that passes the console's output on as it is
SlewLimit_unlimited(out, prev_slew, localthreshold) == out

\* lines 394-400 and 403-409: slew limiting of one channel; both
\* comparisons are false for a NaN difference
SlewLimit(out, prev_slew, localthreshold) ==
  LET clamp == NSub(out, prev_slew)
      up    == IF clamp # NaN /\ clamp > localthreshold
               THEN prev_slew + localthreshold
               ELSE out
  IN  IF clamp # NaN /\ -clamp > localthreshold
      THEN prev_slew - localthreshold
      ELSE up

\* 0.9999, lines 422-423
ClipLimit == FDiv(9999, 10000)

\* line 427, the dry part: (1.0 - mix) * dry; a share of the sample beyond
\* the grid is beyond the grid too
DryPart(dry, mix) ==
  IF dry = Hot THEN (IF mix = Scale THEN 0 ELSE Hot)
  ELSE FMul(Scale - mix, dry)

\* line 427, the sum: NaN for a NaN wet part, beyond the grid for a dry
\* part beyond the grid
MixSum(dry_part, wet_part) ==
  IF wet_part = NaN THEN NaN
  ELSE IF dry_part = Hot THEN Hot
  ELSE dry_part + wet_part

\* lines 417-428 for one channel: gain, clip, dry/wet mix
GainClipMix(out, dry, p) ==
  LET gained  == NMul(out, DbToGain(p.gain))
      clipped == IF p.clip THEN NClamp(gained, -ClipLimit, ClipLimit)
                 ELSE gained
  IN  MixSum(DryPart(dry, p.mix), NMul(p.mix, clipped))

\* lines 401-432, given the console's result, the slew-limited samples and
\* the compressor stage's result
DriverOutput(d, left, right, r, localthreshold, slew_l, slew_r, cp) ==
  [driver  |-> [d EXCEPT !.prev_slew_l = slew_l, !.prev_slew_r = slew_r],
   console |-> r.c,
   compressor |-> cp.c,
   localthreshold |-> localthreshold,
   out_l   |-> GainClipMix(cp.out_l, left, d.params),
   out_r   |-> GainClipMix(cp.out_r, right, d.params)]

\* lines 412-415: the compressor stage, when enabled
DriverCompress(d, k, left, right, r, localthreshold, slew_l, slew_r) ==
  DriverOutput(d, left, right, r, localthreshold, slew_l, slew_r,
               IF d.params.comp THEN CompressPair(k, slew_l, slew_r)
               ELSE [c |-> k, out_l |-> slew_l, out_r |-> slew_r])

\* lines 393-410: slew limiting of the console's output
DriverSlew(d, k, left, right, r, localthreshold) ==
  DriverCompress(d, k, left, right, r, localthreshold,
                 SlewLimit(r.left, d.prev_slew_l, localthreshold),
                 SlewLimit(r.right, d.prev_slew_r, localthreshold))

\* lines 380-432: one iteration of the sample loop (overallscale, line 365,
\* and localthreshold, line 380, from the block's sample rate and slew)
DriverSample(d, c, k, left, right) ==
  DriverSlew(d, k, left, right, ConsoleProcess(c, left, right),
             FDiv(d.params.slew, FDiv(d.sample_rate, Hz(44100))))

\* UnderBrush::default; no block has been processed yet
InitDriver ==
  /\ console = ConsoleNew(Hz(44100))
  /\ comp = CompressorNew(Hz(44100))
  /\ driver = [prev_slew_l |-> 0, prev_slew_r |-> 0,
               sample_rate |-> 0, params |-> 0]
  /\ hist = Call("default", 0, 0, 0)
  /\ pl = 0
  /\ compB = 0
  /\ chist = 0
  /\ consoleB = 0
  /\ dc = 0
  /\ steps = 0

\* lines 363-375: a process call starts: the host's sample rate and the
\* parameter values are read and console and compressor reconfigured
DriverBlock ==
  /\ steps < DriverSteps
  /\ \E fs \in SampleRates, p \in DriverParams :
        /\ console' = Reconfigure(console, fs, p)
        /\ comp' = CompressorSetSampleRate(comp, fs)
        /\ driver' = [driver EXCEPT !.sample_rate = fs, !.params = p]
        /\ hist' = Call("block", <<fs, p>>,
                        [console |-> console, compressor |-> comp],
                        [prev_op |-> hist.op, prev_arg |-> hist.arg])
  /\ steps' = steps + 1
  /\ UNCHANGED <<pl, compB, chist, consoleB, dc>>

\* lines 377-432: the current block's next sample
DriverStep ==
  /\ steps < DriverSteps
  /\ hist.op # "default"
  /\ \E x \in StereoInputs :
        \E r \in {DriverSample(driver, console, comp, x[1], x[2])} :
            /\ console' = r.console
            /\ comp' = r.compressor
            /\ driver' = r.driver
            /\ hist' = Call("sample", x,
                            [console |-> console, compressor |-> comp,
                             driver |-> driver],
                            [out_l |-> r.out_l, out_r |-> r.out_r,
                             localthreshold |-> r.localthreshold])
  /\ steps' = steps + 1
  /\ UNCHANGED <<pl, compB, chist, consoleB, dc>>

NextDriver == DriverBlock \/ DriverStep

SpecDriver == InitDriver /\ [][NextDriver]_vars

\* C10 (as claimed): a block's reconfiguration that directly follows a
\* reconfiguration with the same sample rate and parameter values leaves
\* every field of the console and of the compressor unchanged.
C10_ReconfigurationIdempotent ==
  (hist.op = "block" /\ hist.out.prev_op = "block"
     /\ hist.out.prev_arg = hist.arg) =>
    /\ console = hist.pre.console
    /\ comp = hist.pre.compressor

\* ------------------------------------------------------------------------
\* A console fed a constant stereo sample  (analog_console.rs 41-107)
\* ------------------------------------------------------------------------
\* new(44100.0), then set_drive(1.0), set_saturation_type(Bypass) and
\* set_crosstalk(0.0)
SteadyConsole ==
  ConsoleSetCrosstalk(
    ConsoleSetSaturationType(
      ConsoleSetDrive(ConsoleNew(Hz(44100)), Scale), "Bypass"), 0)

InitSteady ==
  /\ console = SteadyConsole
  /\ hist = Call("new", Hz(44100), 0, 0)
  /\ pl = 0
  /\ comp = 0
  /\ compB = 0
  /\ consoleB = 0
  /\ dc = 0
  /\ driver = 0
  /\ chist = 0
  /\ steps = 0

\* process(0.5, -0.5)
SteadyProcess ==
  /\ steps < SteadyCalls
  /\ \E r \in {ConsoleProcess(console, Scale \div 2, -(Scale \div 2))} :
        /\ console' = r.c
        /\ hist' = Call("process", <<Scale \div 2, -(Scale \div 2)>>, 0,
                        <<r.left, r.right>>)
  /\ steps' = steps + 1
  /\ UNCHANGED <<pl, comp, compB, consoleB, dc, driver, chist>>

NextSteady == SteadyProcess

SpecSteady == InitSteady /\ [][NextSteady]_vars

\* C11 (as claimed): the output of the 1000th process(0.5, -0.5) call on a
\* console with drive 1.0, Bypass and crosstalk 0.0 is within 0.01 of
\* (0.5, -0.5).
C11_ConstantPassesThrough ==
  (hist.op = "process" /\ steps = SteadyCalls) =>
    /\ Abs(hist.out[1] - Scale \div 2) <= Scale \div 100
    /\ Abs(hist.out[2] + Scale \div 2) <= Scale \div 100

\* ------------------------------------------------------------------------
\* A compressor fed silence, a burst of amplitude 1.0, silence
\* (auto_compressor.rs 21-93)
\* ------------------------------------------------------------------------
BurstRate == Hz(8000)

\* attack_ms and release_ms (lines 22-23) in samples at BurstRate
AttackWindow == (15 * (BurstRate \div HzScale)) \div 1000
ReleaseWindow == (200 * (BurstRate \div HzScale)) \div 1000

\* chist.out: the phase of the test signal, the calls made in that phase and
\* the gain_reduction_db the burst ended with
InitBurst ==
  /\ comp = CompressorNew(BurstRate)
  /\ chist = Call("new", BurstRate, 0,
                  [phase |-> "lead", since |-> 0, burst_db |-> 0])
  /\ compB = 0
  /\ pl = 0
  /\ console = 0
  /\ consoleB = 0
  /\ dc = 0
  /\ driver = 0
  /\ hist = 0
  /\ steps = 0

\* process(x) in a phase of the test signal
BurstCall(x, phase, since, burst_db) ==
  /\ \E r \in {CompressorProcess(comp, x)} : comp' = r.c
  /\ chist' = Call("process", x, 0,
                   [phase |-> phase, since |-> since, burst_db |-> burst_db])
  /\ steps' = steps + 1
  /\ UNCHANGED <<pl, compB, console, consoleB, dc, driver, hist>>

\* process(0.0) before the burst
BurstLead ==
  /\ chist.out.phase = "lead"
  /\ chist.out.since < LeadIn
  /\ BurstCall(0, "lead", chist.out.since + 1, 0)

\* the first process(1.0)
BurstStart ==
  /\ chist.out.phase = "lead"
  /\ BurstCall(Scale, "burst", 1, 0)

\* further process(1.0) calls
BurstHold ==
  /\ chist.out.phase = "burst"
  /\ chist.out.since < BurstMax
  /\ BurstCall(Scale, "burst", chist.out.since + 1, 0)

\* the first process(0.0) after the burst
BurstEnd ==
  /\ chist.out.phase = "burst"
  /\ BurstCall(0, "release", 1, comp.gain_reduction_db)

\* further process(0.0) calls, to the end of the release window
BurstRelease ==
  /\ chist.out.phase = "release"
  /\ chist.out.since < ReleaseWindow
  /\ BurstCall(0, "release", chist.out.since + 1, chist.out.burst_db)

NextBurst ==
  BurstLead \/ BurstStart \/ BurstHold \/ BurstEnd \/ BurstRelease

SpecBurst == InitBurst /\ [][NextBurst]_vars

\* C12 (as claimed): gain_reduction_db is above 0 from the first burst
\* sample on (so within the attack window), and when the release window
\* after the burst's end has passed it has come back toward 0: it is below
\* 0.5 dB, or at least below the value the burst ended with.
C12_ReductionRecoversInWindow ==
  /\ (chist.out.phase = "burst" /\ chist.out.since <= AttackWindow) =>
        comp.gain_reduction_db > 0
  /\ (chist.out.phase = "release" /\ chist.out.since = ReleaseWindow) =>
        \/ comp.gain_reduction_db <= Scale \div 2
        \/ comp.gain_reduction_db < chist.out.burst_db

\* ------------------------------------------------------------------------
\* A DCBlocker fed a constant  (analog_console.rs 282-302)
\* ------------------------------------------------------------------------
\* arguments of DCBlocker::new (0.5 and 1.0 are clamped to 0.9 and 0.999)
\* and the constant inputs
DCPoles == {Scale \div 2, (95 * Scale) \div 100, Scale}
DCInputs == {Scale, -(Scale \div 2)}

InitDC ==
  /\ \E r \in DCPoles :
        /\ dc = DCBlockerNew(r)
        /\ hist = Call("new", r, 0, 0)
  /\ pl = 0
  /\ comp = 0
  /\ compB = 0
  /\ console = 0
  /\ consoleB = 0
  /\ driver = 0
  /\ chist = 0
  /\ steps = 0

\* process(v): the first call picks the constant, the later ones repeat it
DCProcess ==
  /\ \E v \in IF hist.op = "new" THEN DCInputs ELSE {hist.arg} :
        \E r \in {DCBlockerProcess(dc, v)} :
            /\ dc' = r.d
            /\ hist' = Call("process", v, dc, r.out)
  /\ UNCHANGED <<pl, comp, compB, console, consoleB, driver, chist, steps>>

NextDC == DCProcess

\* the calls keep coming: the input is an endless constant sequence
SpecDC == InitDC /\ [][NextDC]_vars /\ WF_vars(DCProcess)

\* C13 (as claimed): under a constant input every output after the first
\* is strictly smaller in magnitude than the one before it, and a state
\* that the next call leaves unchanged has output 0.
C13_StrictDecayToZero ==
  hist.op = "process" =>
    /\ hist.pre.x1 = hist.arg => Abs(hist.out) < Abs(hist.pre.y1)
    /\ DCBlockerProcess(dc, hist.arg).d = dc => dc.y1 = 0

\* C13 (amended): the first output is v; every later output is r times the
\* previous one rounded to the number grid, so its magnitude never grows
\* and shrinks strictly while (1 - r) * |output| is at least half a grid
\* step; the outputs come to rest, for good, at a value (not always 0) for
\* which (1 - r) * |output| is at most half a grid step.
C13_RoundedDecayToRest ==
  /\ [](hist.op = "process" =>
          IF hist.pre.x1 = 0 /\ hist.pre.y1 = 0
          THEN hist.out = hist.arg
          ELSE /\ hist.out = FMul(hist.pre.r, hist.pre.y1)
               /\ Abs(hist.out) <= Abs(hist.pre.y1)
               /\ FMul(Scale - hist.pre.r, Abs(hist.pre.y1)) >= 1
                     => Abs(hist.out) < Abs(hist.pre.y1))
  /\ <>[](/\ hist.op = "process"
          /\ hist.pre = dc
          /\ 2 * Abs(dc.y1) <= Scale \div (Scale - dc.r) + 1)

\* a blocker at rest under its constant input with a non-zero output
C13_Witness ==
  /\ hist.op = "process"
  /\ hist.pre = dc
  /\ dc.y1 # 0
  /\ dc.x1 = hist.arg

\* ------------------------------------------------------------------------
\* Two consoles with crosstalk 0.0, configured alike and run side by side
\* (analog_console.rs 41-107)
\* ------------------------------------------------------------------------
TwoRunDrives == {Scale, 2 * Scale}

TwoRunFreqs == {Hz(338)}

\* samples of either channel; the sample beyond the grid is fed under the
\* saturation laws whose result the model can carry on
TwoRunSamples(c) ==
  IF c.saturation_type \in {"LDR", "Bypass"}
  THEN {Scale \div 4, -(Scale \div 2)}
  ELSE {Scale \div 4, -(Scale \div 2), Hot}

\* hist.out: whether the two runs had the same left inputs and the same
\* right inputs so far, whether saturate returned a finite value for every
\* sample so far, and the outputs of the last process call of each run
TwoRun(same_left, same_right, finite, out_a, out_b) ==
  [same_left |-> same_left, same_right |-> same_right, finite |-> finite,
   out_a |-> out_a, out_b |-> out_b]

InitTwoRuns ==
  /\ console = ConsoleSetCrosstalk(ConsoleNew(Hz(8000)), 0)
  /\ consoleB = ConsoleSetCrosstalk(ConsoleNew(Hz(8000)), 0)
  /\ hist = Call("set_crosstalk", 0, 0, TwoRun(TRUE, TRUE, TRUE, <<0, 0>>, <<0, 0>>))
  /\ pl = 0
  /\ comp = 0
  /\ compB = 0
  /\ dc = 0
  /\ driver = 0
  /\ chist = 0
  /\ steps = 0

TwoSetDrive ==
  /\ steps < TwoRunSteps
  /\ \E d \in TwoRunDrives :
        /\ console' = ConsoleSetDrive(console, d)
        /\ consoleB' = ConsoleSetDrive(consoleB, d)
        /\ hist' = Call("set_drive", d, 0, hist.out)
  /\ steps' = steps + 1
  /\ UNCHANGED <<pl, comp, compB, dc, driver, chist>>

TwoSetSaturationType ==
  /\ steps < TwoRunSteps
  /\ \E t \in SaturationType :
        /\ console' = ConsoleSetSaturationType(console, t)
        /\ consoleB' = ConsoleSetSaturationType(consoleB, t)
        /\ hist' = Call("set_saturation_type", t, 0, hist.out)
  /\ steps' = steps + 1
  /\ UNCHANGED <<pl, comp, compB, dc, driver, chist>>

TwoSetPhaseLinearizerFreq ==
  /\ steps < TwoRunSteps
  /\ \E f \in TwoRunFreqs :
        /\ console' = ConsoleSetPhaseLinearizerFreq(console, f)
        /\ consoleB' = ConsoleSetPhaseLinearizerFreq(consoleB, f)
        /\ hist' = Call("set_phase_linearizer_freq", f, 0, hist.out)
  /\ steps' = steps + 1
  /\ UNCHANGED <<pl, comp, compB, dc, driver, chist>>

\* process(la, ra) in the first run and process(lb, rb) in the second
TwoProcessPair(la, ra, lb, rb) ==
  /\ \E a \in {ConsoleProcess(console, la, ra)} :
        \E b \in {ConsoleProcess(consoleB, lb, rb)} :
            /\ console' = a.c
            /\ consoleB' = b.c
            /\ hist' = Call("process", <<la, ra, lb, rb>>, 0,
                            TwoRun(hist.out.same_left /\ la = lb,
                                   hist.out.same_right /\ ra = rb,
                                   /\ hist.out.finite
                                   /\ saturate(console, la) # NaN
                                   /\ saturate(console, ra) # NaN
                                   /\ saturate(consoleB, lb) # NaN
                                   /\ saturate(consoleB, rb) # NaN,
                                   <<a.left, a.right>>, <<b.left, b.right>>))
  /\ steps' = steps + 1
  /\ UNCHANGED <<pl, comp, compB, dc, driver, chist>>

\* the same left sample in both runs, different right samples
TwoProcessSameLeft ==
  /\ steps < TwoRunSteps
  /\ \E l \in TwoRunSamples(console) :
        \E ra \in TwoRunSamples(console), rb \in TwoRunSamples(console) :
            /\ ra # rb
            /\ TwoProcessPair(l, ra, l, rb)

\* the same right sample in both runs, different left samples
TwoProcessSameRight ==
  /\ steps < TwoRunSteps
  /\ \E r \in TwoRunSamples(console) :
        \E la \in TwoRunSamples(console), lb \in TwoRunSamples(console) :
            /\ la # lb
            /\ TwoProcessPair(la, r, lb, r)

NextTwoRuns ==
  \/ TwoSetDrive
  \/ TwoSetSaturationType
  \/ TwoSetPhaseLinearizerFreq
  \/ TwoProcessSameLeft
  \/ TwoProcessSameRight

SpecTwoRuns == InitTwoRuns /\ [][NextTwoRuns]_vars

\* C14 (as claimed): with crosstalk 0.0, two runs with the same
\* configuration and the same left inputs so far have the same left output
\* and the same _prev_left, left DC blocker and left phase linearizer,
\* whatever their right inputs were; and the same with left and right
\* exchanged.
C14_ChannelsIndependent ==
  /\ hist.out.same_left =>
        /\ hist.out.out_a[1] = hist.out.out_b[1]
        /\ console.prev_left = consoleB.prev_left
        /\ console.dc_blocker_left = consoleB.dc_blocker_left
        /\ console.phase_linearizer_left = consoleB.phase_linearizer_left
  /\ hist.out.same_right =>
        /\ hist.out.out_a[2] = hist.out.out_b[2]
        /\ console.prev_right = consoleB.prev_right
        /\ console.dc_blocker_right = consoleB.dc_blocker_right
        /\ console.phase_linearizer_right = consoleB.phase_linearizer_right

\* C14 (amended): with crosstalk 0.0, two runs with the same configuration
\* and the same left inputs so far have the same left output and the same
\* _prev_left, left DC blocker and left phase linearizer as long as
\* saturate returned a finite value for every sample of both runs; and the
\* same with left and right exchanged.
C14_IndependentWhileFinite ==
  /\ (hist.out.same_left /\ hist.out.finite) =>
        /\ hist.out.out_a[1] = hist.out.out_b[1]
        /\ console.prev_left = consoleB.prev_left
        /\ console.dc_blocker_left = consoleB.dc_blocker_left
        /\ console.phase_linearizer_left = consoleB.phase_linearizer_left
  /\ (hist.out.same_right /\ hist.out.finite) =>
        /\ hist.out.out_a[2] = hist.out.out_b[2]
        /\ console.prev_right = consoleB.prev_right
        /\ console.dc_blocker_right = consoleB.dc_blocker_right
        /\ console.phase_linearizer_right = consoleB.phase_linearizer_right

\* two process calls with equal left and different right samples: the
\* right outputs differ, the left outputs do not
C14_Witness ==
  /\ hist.op = "process"
  /\ steps = 2
  /\ hist.out.same_left
  /\ hist.out.finite
  /\ hist.arg[2] # hist.arg[4]
  /\ hist.out.out_a[2] # hist.out.out_b[2]
  /\ hist.out.out_a[1] = hist.out.out_b[1]
  /\ hist.out.out_a[1] # 0
  /\ console.prev_right # consoleB.prev_right

\* ------------------------------------------------------------------------
\* The delay line of a DCPhaseLinearizer  (analog_console.rs 165-227)
\* ------------------------------------------------------------------------
\* rates and corner frequencies that give the delays 0, 1, 2 and 5
DelayRates == {Hz(4000), Hz(8000)}

DelayFreqs == {Hz(400), Hz(800)}

\* hist.out: the allpass outputs of the process calls since the last
\* (re)configuration, oldest first; whether that configuration was new,
\* which fills the whole queue with zeros; the value the last process call
\* used as `delayed` and whether its pop found the queue empty
DelayLog(log, fresh, delayed, empty) ==
  [log |-> log, fresh |-> fresh, delayed |-> delayed, empty |-> empty]

InitDelay ==
  /\ \E fs \in DelayRates, f \in DelayFreqs :
        /\ pl = LinearizerNew(fs, f)
        /\ hist = Call("new", <<fs, f>>, 0, DelayLog(<<>>, TRUE, 0, FALSE))
  /\ comp = 0
  /\ compB = 0
  /\ console = 0
  /\ consoleB = 0
  /\ dc = 0
  /\ driver = 0
  /\ chist = 0
  /\ steps = 0

DelaySetSampleRate ==
  /\ steps < DelaySteps
  /\ \E fs \in DelayRates :
        /\ pl' = LinearizerSetSampleRate(pl, fs)
        /\ hist' = Call("set_sample_rate", fs, pl,
                        DelayLog(<<>>, FALSE, 0, FALSE))
  /\ steps' = steps + 1
  /\ UNCHANGED <<comp, compB, console, consoleB, dc, driver, chist>>

DelaySetCornerFrequency ==
  /\ steps < DelaySteps
  /\ \E f \in DelayFreqs :
        /\ pl' = LinearizerSetCornerFrequency(pl, f)
        /\ hist' = Call("set_corner_frequency", f, pl,
                        DelayLog(<<>>, FALSE, 0, FALSE))
  /\ steps' = steps + 1
  /\ UNCHANGED <<comp, compB, console, consoleB, dc, driver, chist>>

DelayProcess ==
  /\ steps < DelaySteps
  /\ \E x \in Samples :
        \E r \in {LinearizerProcess(pl, x)} :
            /\ pl' = r.l
            /\ hist' = Call("process", x, pl,
                            DelayLog(Append(hist.out.log,
                                            AllpassProcess(pl.allpass_filter,
                                                           x).out),
                                     hist.out.fresh, r.delayed, r.empty))
  /\ steps' = steps + 1
  /\ UNCHANGED <<comp, compB, console, consoleB, dc, driver, chist>>

NextDelay == DelaySetSampleRate \/ DelaySetCornerFrequency \/ DelayProcess

SpecDelay == InitDelay /\ [][NextDelay]_vars

\* C15: in the k-th process call since the last (re)configuration, with
\* delay_length n, the pop finds an element; for k > n the value used as
\* `delayed` is the allpass output of call k - n (of the same call for
\* n = 0), and for k <= n after new it is a zero of the initial fill.
C15_DelayedIsOutputOfCallKMinusN ==
  hist.op = "process" =>
    /\ ~hist.out.empty
    /\ Len(hist.out.log) > hist.pre.delay_samples =>
          hist.out.delayed =
            hist.out.log[Len(hist.out.log) - hist.pre.delay_samples]
    /\ (Len(hist.out.log) <= hist.pre.delay_samples /\ hist.out.fresh) =>
          hist.out.delayed = 0

\* a process call that used the allpass output of an earlier call
C15_Witness ==
  /\ hist.op = "process"
  /\ hist.pre.delay_samples >= 1
  /\ Len(hist.out.log) > hist.pre.delay_samples
  /\ hist.out.delayed # 0
  /\ hist.out.delayed # hist.out.log[Len(hist.out.log)]

\* ------------------------------------------------------------------------
\* The plugin's sample loop: slew limiting, gain, clip and mix
\* (lib.rs 357-432)
\* ------------------------------------------------------------------------
PipelineRates == {Hz(8000)}

\* parameter values of a block: a slow and a fast slew, a bounded and a
\* polynomial saturation law, compressor and clip on and off, mix at both
\* ends of its range and in the middle
PipelineParams ==
  [slew     : {Scale \div 100, (8 * Scale) \div 10},
   drive    : {2 * Scale},
   sat_type : {"Tape", "Cubic"},
   l_hz     : {Hz(150)},
   comp     : BOOLEAN,
   clip     : BOOLEAN,
   mix      : {0, Scale \div 2, Scale},
   gain     : {6 * Scale}]

\* stereo samples (left, right) of the host's buffer: full scale, above
\* full scale, and one with a right sample whose cube overflows
PipelineInputs ==
  {<<Scale, -(Scale \div 2)>>, <<2 * Scale, 2 * Scale>>, <<Scale \div 4, Hot>>}

\* UnderBrush::default; no block has been processed yet
InitPipeline ==
  /\ console = ConsoleNew(Hz(44100))
  /\ comp = CompressorNew(Hz(44100))
  /\ driver = [prev_slew_l |-> 0, prev_slew_r |-> 0,
               sample_rate |-> 0, params |-> 0]
  /\ hist = Call("default", 0, 0, 0)
  /\ pl = 0
  /\ compB = 0
  /\ chist = 0
  /\ consoleB = 0
  /\ dc = 0
  /\ steps = 0

\* lines 363-375: a process call starts
PipelineBlock ==
  /\ steps < PipelineSteps
  /\ hist.op # "block"
  /\ \E fs \in PipelineRates, p \in PipelineParams :
        /\ console' = Reconfigure(console, fs, p)
        /\ comp' = CompressorSetSampleRate(comp, fs)
        /\ driver' = [driver EXCEPT !.sample_rate = fs, !.params = p]
        /\ hist' = Call("block", <<fs, p>>, 0, 0)
  /\ steps' = steps + 1
  /\ UNCHANGED <<pl, compB, chist, consoleB, dc>>

\* lines 377-432: the current block's next sample; hist.out keeps the
\* console's output (line 391), localthreshold and the samples written to
\* the buffer
PipelineSample ==
  /\ steps < PipelineSteps
  /\ hist.op # "default"
  /\ \E x \in PipelineInputs :
        \E r \in {DriverSample(driver, console, comp, x[1], x[2])} :
           \E k \in {ConsoleProcess(console, x[1], x[2])} :
              /\ console' = r.console
              /\ comp' = r.compressor
              /\ driver' = r.driver
              /\ hist' = Call("sample", x, driver,
                              [console_l |-> k.left, console_r |-> k.right,
                               localthreshold |-> r.localthreshold,
                               out_l |-> r.out_l, out_r |-> r.out_r])
  /\ steps' = steps + 1
  /\ UNCHANGED <<pl, compB, chist, consoleB, dc>>

NextPipeline == PipelineBlock \/ PipelineSample

SpecPipeline == InitPipeline /\ [][NextPipeline]_vars

\* C16 (as claimed): after every sample each channel's slew-limited value,
\* which prev_slew then holds, differs from the previous prev_slew by at
\* most localthreshold, whatever the console's output was.
C16_SlewBounded ==
  hist.op = "sample" =>
    /\ driver.prev_slew_l # NaN
    /\ driver.prev_slew_r # NaN
    /\ Abs(driver.prev_slew_l - hist.pre.prev_slew_l) <= hist.out.localthreshold
    /\ Abs(driver.prev_slew_r - hist.pre.prev_slew_r) <= hist.out.localthreshold

\* C16 (amended): after every sample with a console output that is not NaN
\* and a previous prev_slew that is not NaN, the channel's new prev_slew
\* differs from the previous one by at most localthreshold, and it is the
\* console's output itself when that is within localthreshold of the
\* previous prev_slew.
C16_SlewBoundedUnlessNaN ==
  hist.op = "sample" =>
    /\ (hist.out.console_l # NaN /\ hist.pre.prev_slew_l # NaN) =>
          /\ driver.prev_slew_l # NaN
          /\ Abs(driver.prev_slew_l - hist.pre.prev_slew_l)
               <= hist.out.localthreshold
          /\ Abs(hist.out.console_l - hist.pre.prev_slew_l)
               <= hist.out.localthreshold
                => driver.prev_slew_l = hist.out.console_l
    /\ (hist.out.console_r # NaN /\ hist.pre.prev_slew_r # NaN) =>
          /\ driver.prev_slew_r # NaN
          /\ Abs(driver.prev_slew_r - hist.pre.prev_slew_r)
               <= hist.out.localthreshold
          /\ Abs(hist.out.console_r - hist.pre.prev_slew_r)
               <= hist.out.localthreshold
                => driver.prev_slew_r = hist.out.console_r

\* a second sample whose left console output was cut back to the previous
\* limited value plus or minus localthreshold
C16_Witness ==
  /\ hist.op = "sample"
  /\ hist.pre.prev_slew_l # 0
  /\ hist.pre.prev_slew_l # NaN
  /\ hist.out.console_l # NaN
  /\ driver.prev_slew_l # hist.out.console_l
  /\ Abs(driver.prev_slew_l - hist.pre.prev_slew_l) = hist.out.localthreshold

\* C17 (as claimed): with clip enabled every sample written to the output
\* buffer has magnitude at most 0.9999 (stated for the input samples on
\* the grid).
C17_ClipBoundsOutput ==
  (hist.op = "sample" /\ driver.params.clip /\ hist.arg[2] # Hot) =>
    /\ hist.out.out_l # NaN
    /\ hist.out.out_r # NaN
    /\ Abs(hist.out.out_l) <= ClipLimit
    /\ Abs(hist.out.out_r) <= ClipLimit

=============================================================================
